---- MODULE Spec2Model ----
(***************************************************************************)
(* Model of the ABI helpers of nekoton-flutter                             *)
(* (rust/src/helpers/abi/mod.rs, rust/src/lib.rs).                         *)
(*                                                                         *)
(*  - the type-descriptor parser parse_param_type with parse_param and     *)
(*    parse_params_list above it (SpecParser);                             *)
(*  - the two external-message construction paths and the shared clock     *)
(*    (SpecMessage);                                                       *)
(*  - the name lookups and the message and transaction decoders            *)
(*    (SpecDecoder).                                                       *)
(*                                                                         *)
(* A descriptor is a sequence of one-character strings (ASCII, so Rust's   *)
(* byte offsets and character positions coincide).  A ParamType is the     *)
(* prefix (pre-order) listing of its nodes, each node a record             *)
(* [t |-> tag, n |-> number]; Map lists its key type, then its value type. *)
(***************************************************************************)
EXTENDS Integers, Sequences, FiniteSets, TLC

VARIABLES
    pc,            \* "idle" | "done": position of the caller of the parser
    descriptor,    \* the input of the last parse_param_type call
    params,        \* the input of the last parse_params_list call
    result,        \* what the last parser call returned
    mpc,           \* "idle" | "done": position of the caller of the builder
    system_time,   \* SystemTime::now() since UNIX_EPOCH, in milliseconds
    clock_time,    \* what CLOCK (the shared clock) reads, in milliseconds
    call,          \* the last message-builder call: inputs and outcome
    unsigned_messages, \* the unsigned-message objects behind the handles
    messages,      \* the sendable messages produced so far
    dpc,           \* "idle" | "done": position of the caller of a decoder
    dcall          \* the last lookup or decoder call: inputs and outcome

parserVars == <<pc, descriptor, params, result>>
messageVars == <<mpc, system_time, clock_time, call, unsigned_messages, messages>>
decoderVars == <<dpc, dcall>>
vars == <<pc, descriptor, params, result,
          mpc, system_time, clock_time, call, unsigned_messages, messages,
          dpc, dcall>>

(***************************************************************************)
(* Bounds of the model.                                                    *)
(***************************************************************************)
MaxNodes == 3        \* nodes of a generated reference type tree
MaxEditNodes == 2    \* nodes of the descriptors that get a one-character edit
MaxRawLen == 2       \* length of the raw strings over RawAlphabet
MaxOutMsgs == 2      \* outbound messages of a transaction
MaxParams == 2       \* length of a parameter list
TimestampBits == 2   \* width standing for the 32 bits of timeout and expire
MaxSeconds == 1      \* how far the two time sources advance, in seconds
MaxHandles == 1      \* unsigned-message objects alive at once
MaxMessages == 2     \* sendable messages produced in one behaviour

(***************************************************************************)
(* Characters and strings.                                                 *)
(***************************************************************************)
DigitChars == <<"0", "1", "2", "3", "4", "5", "6", "7", "8", "9">>

IsDigit(c) == \E i \in 1..10 : DigitChars[i] = c

DigitVal(c) == (CHOOSE i \in 1..10 : DigitChars[i] = c) - 1

RECURSIVE Dec(_)
\* decimal rendering of a natural number (used to build the inputs)
Dec(n) == IF n < 10 THEN <<DigitChars[n + 1]>>
          ELSE Dec(n \div 10) \o <<DigitChars[(n % 10) + 1]>>

S_bool == <<"b","o","o","l">>
S_tuple == <<"t","u","p","l","e">>
S_int == <<"i","n","t">>
S_uint == <<"u","i","n","t">>
S_varint == <<"v","a","r","i","n","t">>
S_varuint == <<"v","a","r","u","i","n","t">>
S_map == <<"m","a","p","(">>
S_cell == <<"c","e","l","l">>
S_address == <<"a","d","d","r","e","s","s">>
S_token == <<"t","o","k","e","n">>
S_gram == <<"g","r","a","m">>
S_bytes == <<"b","y","t","e","s">>
S_fixedbytes == <<"f","i","x","e","d","b","y","t","e","s">>
S_time == <<"t","i","m","e">>
S_expire == <<"e","x","p","i","r","e">>
S_pubkey == <<"p","u","b","k","e","y">>
S_string == <<"s","t","r","i","n","g">>
S_optional == <<"o","p","t","i","o","n","a","l","(">>
S_ref == <<"r","e","f","(">>

\* str::starts_with
StartsWith(s, p) == Len(s) >= Len(p) /\ SubSeq(s, 1, Len(p)) = p

\* str::ends_with(')')
EndsWithChar(s, c) == Len(s) >= 1 /\ s[Len(s)] = c

\* &s[from..]  (from is a 0-based byte offset)
SliceFrom(s, from) == SubSeq(s, from + 1, Len(s))

\* &s[from..to]  (0-based, to exclusive)
Slice(s, from, to) == SubSeq(s, from + 1, to)

Reverse(s) == [i \in 1..Len(s) |-> s[Len(s) + 1 - i]]

RECURSIVE TakeWhileNot(_, _)
\* Iterator::take_while(|c| *c != stop)
TakeWhileNot(s, stop) ==
    IF s = <<>> \/ Head(s) = stop THEN <<>>
    ELSE <<Head(s)>> \o TakeWhileNot(Tail(s), stop)

RECURSIVE IndexOf(_, _, _)
\* position of the first c in s at or after i, 0 when there is none
IndexOf(s, c, i) ==
    IF i > Len(s) THEN 0
    ELSE IF s[i] = c THEN i
    ELSE IndexOf(s, c, i + 1)

(***************************************************************************)
(* ParamType values and results.                                           *)
(***************************************************************************)
Node(t, n) == [t |-> t, n |-> n]

Ok(type) == [tag |-> "Ok", type |-> type, err |-> ""]
Err(e) == [tag |-> "Err", type |-> <<>>, err |-> e]
\* the call did not return: the thread panicked inside an extern "C"
\* function.  A usize subtraction that underflows panics where overflow
\* checks are on and wraps where they are off, and the wrapped value is
\* then an out-of-range slice index, which panics too.
Panic == [tag |-> "Panic", type |-> <<>>, err |-> ""]

(***************************************************************************)
(* usize::from_str / str::parse::<usize>: an optional '+', then one or     *)
(* more decimal digits.  (Values beyond usize::MAX are an error; the       *)
(* inputs of this model have at most four digits.)                         *)
(***************************************************************************)
RECURSIVE DigitsValue(_, _)
DigitsValue(s, acc) ==
    IF s = <<>> THEN acc
    ELSE DigitsValue(Tail(s), acc * 10 + DigitVal(Head(s)))

ParseUsize(s) ==
    LET digits == IF Len(s) > 1 /\ s[1] = "+" THEN Tail(s) ELSE s
    IN  IF digits # <<>> /\ \A i \in 1..Len(digits) : IsDigit(digits[i])
        THEN [ok |-> TRUE, val |-> DigitsValue(digits, 0)]
        ELSE [ok |-> FALSE, val |-> 0]

(***************************************************************************)
(* parse_param_type, lines 758-845.                                        *)
(***************************************************************************)
TrailingNum_unreversed(kind) ==
    TakeWhileNot(Reverse(SubSeq(kind, 1, Len(kind) - 1)), "[")

\* lines 760-768: the text between the last '[' and the final ']'
TrailingNum(kind) ==
    Reverse(TakeWhileNot(Reverse(SubSeq(kind, 1, Len(kind) - 1)), "["))

MapKeyAllowed_any(key_type) == TRUE

\* lines 812-819: the kinds a map key may have
MapKeyAllowed(key_type) == key_type[1].t \in {"Int", "Uint", "Address"}

IsMapForm_open_only(s) == StartsWith(s, S_map)

\* line 803: the guard of the map arm
IsMapForm(s) == StartsWith(s, S_map) /\ EndsWithChar(s, ")")

\* lines 788, 792, 796, 800, 826: a keyword followed by its width
WidthType(s, keyword, tag) ==
    LET len == ParseUsize(SliceFrom(s, Len(keyword)))
    IN  IF len.ok THEN Ok(<<Node(tag, len.val)>>) ELSE Err("ExpectedParamType")

RECURSIVE parse_param_type(_)
parse_param_type(kind) ==
    IF kind # <<>> /\ kind[Len(kind)] = "]" THEN
        LET num == TrailingNum(kind)
            count == Len(kind)
        IN  IF num = <<>> THEN
                \* kind[..count - 2]: count - 2 underflows for "]"
                IF count < 2 THEN Panic
                ELSE LET subtype == parse_param_type(Slice(kind, 0, count - 2))
                     IN  IF subtype.tag # "Ok" THEN subtype
                         ELSE Ok(<<Node("Array", 0)>> \o subtype.type)
            ELSE
                LET len == ParseUsize(num)
                IN  IF ~len.ok THEN Err("ExpectedParamType")
                    \* kind[..count - num.len() - 2] underflows without a '['
                    ELSE IF count - Len(num) < 2 THEN Panic
                    ELSE LET subtype ==
                                 parse_param_type(Slice(kind, 0, count - Len(num) - 2))
                         IN  IF subtype.tag # "Ok" THEN subtype
                             ELSE Ok(<<Node("FixedArray", len.val)>> \o subtype.type)
    ELSE IF kind = S_bool THEN Ok(<<Node("Bool", 0)>>)
    ELSE IF kind = S_tuple THEN Ok(<<Node("Tuple", 0)>>)
    ELSE IF StartsWith(kind, S_int) THEN WidthType(kind, S_int, "Int")
    ELSE IF StartsWith(kind, S_uint) THEN WidthType(kind, S_uint, "Uint")
    ELSE IF StartsWith(kind, S_varint) THEN WidthType(kind, S_varint, "Int")
    ELSE IF StartsWith(kind, S_varuint) THEN WidthType(kind, S_varuint, "Uint")
    ELSE IF IsMapForm(kind) THEN
        LET inner == Slice(kind, 4, Len(kind) - 1)
            comma == IndexOf(inner, ",", 1)
        IN  \* splitn(2, ','): one piece when there is no comma
            IF comma = 0 THEN Err("ExpectedParamType")
            ELSE LET key_type == parse_param_type(SubSeq(inner, 1, comma - 1))
                 IN  IF key_type.tag # "Ok" THEN key_type
                     ELSE LET value_type ==
                                  parse_param_type(SubSeq(inner, comma + 1, Len(inner)))
                          IN  IF value_type.tag # "Ok" THEN value_type
                              ELSE IF MapKeyAllowed(key_type.type)
                              THEN Ok(<<Node("Map", 0)>> \o key_type.type
                                                        \o value_type.type)
                              ELSE Err("ExpectedParamType")
    ELSE IF kind = S_cell THEN Ok(<<Node("Cell", 0)>>)
    ELSE IF kind = S_address THEN Ok(<<Node("Address", 0)>>)
    ELSE IF kind = S_token \/ kind = S_gram THEN Ok(<<Node("Token", 0)>>)
    ELSE IF kind = S_bytes THEN Ok(<<Node("Bytes", 0)>>)
    ELSE IF StartsWith(kind, S_fixedbytes)
         THEN WidthType(kind, S_fixedbytes, "FixedBytes")
    ELSE IF kind = S_time THEN Ok(<<Node("Time", 0)>>)
    ELSE IF kind = S_expire THEN Ok(<<Node("Expire", 0)>>)
    ELSE IF kind = S_pubkey THEN Ok(<<Node("PublicKey", 0)>>)
    ELSE IF kind = S_string THEN Ok(<<Node("String", 0)>>)
    ELSE IF StartsWith(kind, S_optional) /\ EndsWithChar(kind, ")") THEN
        LET inner_type == parse_param_type(Slice(kind, 9, Len(kind) - 1))
        IN  IF inner_type.tag # "Ok" THEN inner_type
            ELSE Ok(<<Node("Optional", 0)>> \o inner_type.type)
    ELSE IF StartsWith(kind, S_ref) /\ EndsWithChar(kind, ")") THEN
        LET inner_type == parse_param_type(Slice(kind, 4, Len(kind) - 1))
        IN  IF inner_type.tag # "Ok" THEN inner_type
            ELSE Ok(<<Node("Ref", 0)>> \o inner_type.type)
    ELSE Err("ExpectedParamType")

(***************************************************************************)
(* parse_param and parse_params_list, lines 729-756.  An AbiParam is       *)
(* [name, param_type, has_components, components, set_components_ok];      *)
(* set_components_ok is what ton_abi's ParamType::set_components answers   *)
(* for this parameter (that function is outside the repository).           *)
(***************************************************************************)
RECURSIVE parse_param(_)
RECURSIVE CollectParams(_, _, _)

\* .iter().map(parse_param).collect::<Result<_, AbiError>>(): stops at the
\* first parameter that does not parse
CollectParams(list, i, acc) ==
    IF i > Len(list) THEN [tag |-> "Ok", type |-> acc, err |-> ""]
    ELSE LET p == parse_param(list[i])
         IN  IF p.tag # "Ok" THEN p
             ELSE CollectParams(list, i + 1, Append(acc, p.type))

parse_param(param) ==
    LET kind == parse_param_type(param.param_type)
    IN  IF kind.tag # "Ok" THEN kind
        ELSE LET components ==
                     IF param.has_components
                     THEN CollectParams(param.components, 1, <<>>)
                     ELSE [tag |-> "Ok", type |-> <<>>, err |-> ""]
             IN  IF components.tag # "Ok" THEN components
                 ELSE IF ~param.set_components_ok THEN Err("InvalidComponents")
                 ELSE [tag |-> "Ok",
                       type |-> [name |-> param.name, kind |-> kind.type],
                       err |-> ""]

parse_params_list(input) ==
    IF ~input.json_ok THEN Err("json")
    ELSE CollectParams(input.list, 1, <<>>)

(***************************************************************************)
(* The descriptors the parser is run on.                                   *)
(*                                                                         *)
(* Grammar: the descriptors of the reference grammar, each with the type   *)
(* the grammar gives it and whether the data model allows that type        *)
(* (FixedArray length > 0, Map key in Int, Uint, Address).                 *)
(***************************************************************************)
GLeaf(text, t, n) == [text |-> text, type |-> <<Node(t, n)>>, valid |-> TRUE]

Widths == {8, 32, 128}
FixedLens == {0, 3, 12}

WidthLeaves ==
    {GLeaf(S_int \o Dec(w), "Int", w) : w \in Widths}
    \cup {GLeaf(S_uint \o Dec(w), "Uint", w) : w \in Widths}
    \cup {GLeaf(S_varint \o Dec(w), "Int", w) : w \in Widths}
    \cup {GLeaf(S_varuint \o Dec(w), "Uint", w) : w \in Widths}
    \cup {GLeaf(S_fixedbytes \o Dec(w), "FixedBytes", w) : w \in Widths}

AllLeaves ==
    WidthLeaves \cup
    { GLeaf(S_bool, "Bool", 0), GLeaf(S_tuple, "Tuple", 0),
      GLeaf(S_cell, "Cell", 0), GLeaf(S_address, "Address", 0),
      GLeaf(S_token, "Token", 0), GLeaf(S_gram, "Token", 0),
      GLeaf(S_bytes, "Bytes", 0), GLeaf(S_time, "Time", 0),
      GLeaf(S_expire, "Expire", 0), GLeaf(S_pubkey, "PublicKey", 0),
      GLeaf(S_string, "String", 0) }

\* the leaves the composite types are built over
CoreLeaves ==
    { GLeaf(S_uint \o Dec(8), "Uint", 8), GLeaf(S_uint \o Dec(32), "Uint", 32),
      GLeaf(S_int \o Dec(8), "Int", 8), GLeaf(S_address, "Address", 0),
      GLeaf(S_cell, "Cell", 0) }

GArray(g) == [text |-> g.text \o <<"[", "]">>,
              type |-> <<Node("Array", 0)>> \o g.type,
              valid |-> g.valid]

GFixedArray(g, n) == [text |-> g.text \o <<"[">> \o Dec(n) \o <<"]">>,
                      type |-> <<Node("FixedArray", n)>> \o g.type,
                      valid |-> g.valid /\ n > 0]

GOptional(g) == [text |-> S_optional \o g.text \o <<")">>,
                 type |-> <<Node("Optional", 0)>> \o g.type,
                 valid |-> g.valid]

GRef(g) == [text |-> S_ref \o g.text \o <<")">>,
            type |-> <<Node("Ref", 0)>> \o g.type,
            valid |-> g.valid]

GMap(k, v) == [text |-> S_map \o k.text \o <<",">> \o v.text \o <<")">>,
               type |-> <<Node("Map", 0)>> \o k.type \o v.type,
               valid |-> k.valid /\ v.valid
                         /\ k.type[1].t \in {"Int", "Uint", "Address"}]

RECURSIVE GrammarOfSize(_)
\* the reference derivations with exactly n nodes over CoreLeaves
GrammarOfSize(n) ==
    IF n = 1 THEN CoreLeaves
    ELSE LET sub == GrammarOfSize(n - 1)
         IN  {GArray(g) : g \in sub}
             \cup {GFixedArray(g, len) : g \in sub, len \in FixedLens}
             \cup {GOptional(g) : g \in sub}
             \cup {GRef(g) : g \in sub}
             \cup UNION { {GMap(k, v) : k \in GrammarOfSize(i),
                                        v \in GrammarOfSize(n - 1 - i)}
                          : i \in 1..(n - 2) }

GrammarUpTo(n) == AllLeaves \cup UNION {GrammarOfSize(i) : i \in 1..n}

Grammar == GrammarUpTo(MaxNodes)

\* one-character edits of the smaller grammar descriptors
EditChars == {"[", "]", "(", ")", ",", "+", "0", "x"}

DeleteAt(s, i) == SubSeq(s, 1, i - 1) \o SubSeq(s, i + 1, Len(s))

InsertAt(s, i, c) == SubSeq(s, 1, i - 1) \o <<c>> \o SubSeq(s, i, Len(s))

\* the descriptors that get edited: the small grammar descriptors and the
\* two composite examples of the specification
EditBase ==
    {g.text : g \in GrammarUpTo(MaxEditNodes)}
    \cup { S_map \o S_address \o <<",">> \o S_uint \o Dec(32) \o <<")">>,
           S_uint \o Dec(8) \o <<"[", "]", "[", "3", "]">> }

RawAlphabet == {"]", "[", "3", "+", "x", ")"}

RECURSIVE RawStrings(_)
RawStrings(n) ==
    IF n = 0 THEN {<<>>}
    ELSE LET shorter == RawStrings(n - 1)
         IN  shorter \cup {Append(s, c) : s \in shorter, c \in RawAlphabet}

\* an input of parse_param_type: the text, and where it has one the
\* reference derivation it was rendered from
FromGrammar(g) == [text |-> g.text, grammar |-> TRUE,
                   valid |-> g.valid, type |-> g.type]

FromText(s) == [text |-> s, grammar |-> FALSE, valid |-> FALSE, type |-> <<>>]

NoDescriptor == FromText(<<>>)

\* the parameter lists parse_params_list is run on
PoolTypes == {S_uint \o Dec(8), <<"]">>, <<"f","o","o">>}

LeafParam(name, type, ok) ==
    [name |-> name, param_type |-> type, has_components |-> FALSE,
     components |-> <<>>, set_components_ok |-> ok]

ParamPool ==
    {LeafParam("a", t, ok) : t \in PoolTypes, ok \in BOOLEAN}
    \cup { [name |-> "b", param_type |-> t, has_components |-> TRUE,
            components |-> <<LeafParam("c", c, TRUE)>>,
            set_components_ok |-> ok]
           : t \in {S_tuple},
             c \in {S_uint \o Dec(8), <<"3", "]">>, <<"f","o","o">>},
             ok \in BOOLEAN }

RECURSIVE ParamLists(_)
ParamLists(n) ==
    IF n = 0 THEN {<<>>}
    ELSE LET shorter == ParamLists(n - 1)
         IN  shorter \cup {Append(l, p) : l \in shorter, p \in ParamPool}

ParamsInputs ==
    {[json_ok |-> TRUE, list |-> l] : l \in ParamLists(MaxParams)}
    \cup {[json_ok |-> FALSE, list |-> <<>>]}

NoParams == [json_ok |-> FALSE, list |-> <<>>]

NoResult == [tag |-> "None", type |-> <<>>, err |-> ""]

(***************************************************************************)
(* Initial state: nothing has been called.                                 *)
(***************************************************************************)
ParserInit ==
    /\ pc = "idle"
    /\ descriptor = NoDescriptor
    /\ params = NoParams
    /\ result = NoResult

(***************************************************************************)
(* The parser's callers.                                                   *)
(***************************************************************************)
\* parse_param_type runs on d and its answer is kept
Parsed(d) ==
    /\ descriptor' = d
    /\ result' = parse_param_type(d.text)

\* a call of parse_param_type on one descriptor: a grammar descriptor, a
\* raw string, or a grammar descriptor with one character deleted or
\* inserted
ParseParamType ==
    /\ pc = "idle"
    /\ \/ \E g \in Grammar : Parsed(FromGrammar(g))
       \/ \E r \in RawStrings(MaxRawLen) : Parsed(FromText(r))
       \/ \E s \in EditBase : \E i \in 1..Len(s) :
             Parsed(FromText(DeleteAt(s, i)))
       \/ \E s \in EditBase : \E i \in 1..(Len(s) + 1) : \E c \in EditChars :
             Parsed(FromText(InsertAt(s, i, c)))
    /\ pc' = "type_done"
    /\ UNCHANGED params
    /\ UNCHANGED messageVars
    /\ UNCHANGED decoderVars

\* a call of parse_params_list on one parameter list
ParseParamsList ==
    /\ pc = "idle"
    /\ \E input \in ParamsInputs :
          /\ params' = input
          /\ result' = parse_params_list(input)
    /\ pc' = "list_done"
    /\ UNCHANGED descriptor
    /\ UNCHANGED messageVars
    /\ UNCHANGED decoderVars

\* the caller has taken the result
ParserReturn ==
    /\ pc # "idle"
    /\ pc' = "idle"
    /\ descriptor' = NoDescriptor
    /\ params' = NoParams
    /\ result' = NoResult
    /\ UNCHANGED messageVars
    /\ UNCHANGED decoderVars

(***************************************************************************)
(* Properties of the parser (checked under SpecParser).                    *)
(***************************************************************************)
KeyKinds == {"Int", "Uint", "Address"}

Ex_uint8_array_fixed3 == S_uint \o <<"8", "[", "]", "[", "3", "]">>
Ex_map_cell_uint32 == S_map \o S_cell \o <<",">> \o S_uint \o <<"3", "2", ")">>

RECURSIVE BalancedFrom(_, _, _)
\* the brackets and parentheses of s[i..] close the open ones in stack, in order
BalancedFrom(s, i, stack) ==
    IF i > Len(s) THEN stack = <<>>
    ELSE IF s[i] \in {"(", "["} THEN BalancedFrom(s, i + 1, <<s[i]>> \o stack)
    ELSE IF s[i] = ")"
         THEN stack # <<>> /\ Head(stack) = "(" /\ BalancedFrom(s, i + 1, Tail(stack))
    ELSE IF s[i] = "]"
         THEN stack # <<>> /\ Head(stack) = "[" /\ BalancedFrom(s, i + 1, Tail(stack))
    ELSE BalancedFrom(s, i + 1, stack)

Balanced(s) == BalancedFrom(s, 1, <<>>)

AllDigits(s) == s # <<>> /\ \A i \in 1..Len(s) : IsDigit(s[i])

\* C2: on every descriptor of the reference grammar whose type the data
\* model allows, parse_param_type returns the type the grammar gives it:
\* int<N> is Int(N), uint<N> is Uint(N), T[] is Array(T), T[N] is
\* FixedArray(T,N), the last bracket group outermost.
C2_ParseAgreesWithGrammar ==
    (pc = "type_done" /\ descriptor.grammar /\ descriptor.valid)
        => result = Ok(descriptor.type)

C2_Witness ==
    /\ pc = "type_done"
    /\ descriptor.grammar
    /\ descriptor.text = Ex_uint8_array_fixed3
    /\ result = Ok(<<Node("FixedArray", 3), Node("Array", 0), Node("Uint", 8)>>)

\* C3: every call of parse_param_type and of parse_params_list returns a
\* typed result, a value or an error; none aborts.
C3_NeverAborts ==
    pc \in {"type_done", "list_done"} => result.tag \in {"Ok", "Err"}

\* C4: every FixedArray node of a type parse_param_type returns has
\* length > 0.
C4_FixedArrayLengthPositive ==
    (pc = "type_done" /\ result.tag = "Ok")
        => \A i \in 1..Len(result.type) :
              result.type[i].t = "FixedArray" => result.type[i].n > 0

C6_UnbalancedNeverParsed ==
    (pc = "type_done" /\ ~Balanced(descriptor.text)) => result.tag # "Ok"

C6_Witness ==
    /\ pc = "type_done"
    /\ descriptor.text = S_map \o S_address \o <<",">> \o S_uint \o <<"3", "2">>
    /\ result = Err("ExpectedParamType")

ExactKeywords == {S_bool, S_tuple, S_cell, S_address, S_token, S_gram, S_bytes,
                  S_time, S_expire, S_pubkey, S_string}

WidthKeywords == {S_int, S_uint, S_varint, S_varuint, S_fixedbytes}

\* a descriptor without brackets, parentheses or commas
IsBareWord(s) ==
    \A i \in 1..Len(s) : s[i] \notin {"[", "]", "(", ")", ","}

\* a bare word the grammar has: a keyword, or a width keyword and digits
IsGrammarWord(s) ==
    \/ s \in ExactKeywords
    \/ \E kw \in WidthKeywords :
          StartsWith(s, kw) /\ AllDigits(SliceFrom(s, Len(kw)))

\* s ends in a bracket group [x] whose x is neither empty nor all digits
HasBadLength(s) ==
    /\ Len(s) >= 2
    /\ s[Len(s)] = "]"
    /\ \E j \in 1..(Len(s) - 1) :
          /\ s[j] = "["
          /\ \A k \in (j + 1)..(Len(s) - 1) : s[k] # "["
          /\ j + 1 <= Len(s) - 1
          /\ ~AllDigits(SubSeq(s, j + 1, Len(s) - 1))

\* C7: a descriptor whose keyword the grammar does not have, or whose width
\* or fixed-array length is not a non-empty string of decimal digits, is
\* rejected with ExpectedParamType.
C7_RejectsBadKeywordOrSuffix ==
    (pc = "type_done"
       /\ \/ IsBareWord(descriptor.text) /\ ~IsGrammarWord(descriptor.text)
          \/ HasBadLength(descriptor.text))
        => result = Err("ExpectedParamType")

(***************************************************************************)
(* Name lookups and decoders: nt_run_local (51-107),                       *)
(* nt_encode_internal_input (159-190), nt_decode_input / _event / _output  *)
(* (376-509), nt_decode_transaction (511-579) and                          *)
(* nt_decode_transaction_events (581-635).                                 *)
(*                                                                         *)
(* The steps that call into ton_abi, nekoton_abi, ton_types or serde are   *)
(* inputs of the model: fail_at names the step of the call that returns an *)
(* error ("none": no step does), match is what the matcher answers, and a  *)
(* message body is named by what the event decoders make of it.            *)
(***************************************************************************)

\* the names a contract can declare
Names == {"f", "g"}

\* message bodies: read_function_id fails on "no_id", event_by_id on
\* "unknown_id", Event::decode_input on "bad_payload", make_abi_tokens on
\* "bad_tokens"; "event_a" and "event_b" decode to the event of that name
Bodies == {"no_id", "unknown_id", "bad_payload", "bad_tokens",
           "event_a", "event_b"}

\* body: None
NoBody == "none"

\* an outbound message: dst.is_some() and its body
OutMsgs == [dst : BOOLEAN, body : Bodies \cup {NoBody}]

\* the inbound message: src.is_some() and body.is_some()
InMsgs == [src : BOOLEAN, body : BOOLEAN]

NoTransaction == [in_msg |-> [src |-> FALSE, body |-> FALSE], out_msgs |-> <<>>]

\* what match_result (lib.rs 85-97) serialises
NoDecoded == [tag |-> "None", data |-> "none", err |-> "", events |-> <<>>]

\* Ok(u64::default()): ok with null data
Absent == [tag |-> "Ok", data |-> "null", err |-> "", events |-> <<>>]

OkData(d) == [tag |-> "Ok", data |-> d, err |-> "", events |-> <<>>]

OkEvents(list) == [tag |-> "Ok", data |-> "events", err |-> "", events |-> list]

\* handle_error (lib.rs 105-114) and the ? that returns it
DErr(e) == [tag |-> "Err", data |-> "none", err |-> e, events |-> <<>>]

ExpectedMessageBody == "Expected message body"

\* what a decoder call did: the steps it ran, what it handed to
\* process_raw_outputs (if it got there), and what it returned
Ran(trace, handed_over, handed, outcome) ==
    [trace |-> trace, handed_over |-> handed_over, handed |-> handed,
     outcome |-> outcome]

Returned(outcome) == Ran(<<>>, FALSE, <<>>, outcome)

After(step, r) == [r EXCEPT !.trace = <<step>> \o @]

NoDecoderCall ==
    [op |-> "none", fail_at |-> "none", functions |-> {}, method |-> "",
     method_kind |-> "none", match |-> "none", transaction |-> NoTransaction,
     trace |-> <<>>, handed_over |-> FALSE, handed |-> <<>>,
     outcome |-> NoDecoded]

DecoderCall(op, fail_at, functions, method, method_kind, match, transaction, r) ==
    [op |-> op, fail_at |-> fail_at, functions |-> functions,
     method |-> method, method_kind |-> method_kind, match |-> match,
     transaction |-> transaction, trace |-> r.trace,
     handed_over |-> r.handed_over, handed |-> r.handed,
     outcome |-> r.outcome]

DecoderInit ==
    /\ dpc = "idle"
    /\ dcall = NoDecoderCall

\* contract_abi.function(&method), lines 74 and 172: a Result that holds
\* the declared function of that name, or an error when there is none
function(functions, method) == IF method \in functions THEN "Ok" ELSE "Err"

\* the steps of nt_run_local that can return an error, lines 72-101
RunLocalFailPoints ==
    {"none", "account_stuff", "contract_abi", "input_json", "input_tokens",
     "run_local", "output_tokens", "serialize"}

\* the steps of nt_encode_internal_input that can return an error,
\* lines 170-182
EncodeInternalInputFailPoints ==
    {"none", "contract_abi", "input_json", "input_tokens", "encode_input",
     "serialize_toc"}

\* nt_run_local::internal_fn, lines 65-104
run_local(fail_at, functions, method) ==
    IF fail_at \in {"account_stuff", "contract_abi"} THEN DErr(fail_at)
    ELSE IF function(functions, method) = "Err" THEN DErr("function")
    ELSE IF fail_at # "none" THEN DErr(fail_at)
    ELSE OkData("execution_output")

\* nt_encode_internal_input::internal_fn, lines 169-187
encode_internal_input(fail_at, functions, method) ==
    IF fail_at = "contract_abi" THEN DErr(fail_at)
    ELSE IF function(functions, method) = "Err" THEN DErr("function")
    ELSE IF fail_at # "none" THEN DErr(fail_at)
    ELSE OkData("body")

\* the steps of nt_decode_input, nt_decode_event and nt_decode_output that
\* can return an error, lines 394-412 ("decode": nekoton_abi::decode_input,
\* decode_event or decode_output returned Err)
DecodeMessageFailPoints ==
    {"none", "message_body", "contract_abi", "method", "decode", "tokens",
     "serialize"}

\* parse_method_name, lines 713-721: a JSON string is a known name, a JSON
\* array of strings a range to guess in
MethodKinds == {"Known", "GuessInRange"}

\* what the matcher can answer: a declared function or event, or none.
\* The function it answers is borrowed from the contract, so a known name
\* the contract does not declare is never answered with one.
Matches(functions, method, method_kind) ==
    IF method_kind = "Known" /\ method \notin functions
    THEN {"None"}
    ELSE {"Some", "None"}

\* nt_decode_input::internal_fn, lines 388-418; nt_decode_event (433-462)
\* and nt_decode_output (477-506) have the same steps
decode_message(fail_at, match) ==
    IF fail_at \in {"message_body", "contract_abi", "method", "decode"}
    THEN DErr(fail_at)
    ELSE IF match = "None" THEN Absent
    ELSE IF fail_at # "none" THEN DErr(fail_at)
    ELSE OkData("decoded")

IsExtOut_any(e) == TRUE

\* lines 551-553 and 597-599: a message with a destination is dropped
IsExtOut(e) == ~e.dst

RECURSIVE ext_out_msgs_skipping(_)
ext_out_msgs_skipping(out_msgs) ==
    IF out_msgs = <<>> THEN [ok |-> TRUE, bodies |-> <<>>]
    ELSE LET e == Head(out_msgs)
             rest == ext_out_msgs_skipping(Tail(out_msgs))
         IN  IF ~IsExtOut(e) \/ e.body = NoBody THEN rest
             ELSE [ok |-> TRUE, bodies |-> <<e.body>> \o rest.bodies]

\* lines 547-560 and 593-606: filter_map over out_msgs, then
\* collect::<Result<Vec<_>, String>>, which stops at the first Err
RECURSIVE ext_out_msgs(_)
ext_out_msgs(out_msgs) ==
    IF out_msgs = <<>> THEN [ok |-> TRUE, bodies |-> <<>>]
    ELSE LET e == Head(out_msgs)
             rest == ext_out_msgs(Tail(out_msgs))
         IN  IF ~IsExtOut(e) THEN rest
             ELSE IF e.body = NoBody THEN [ok |-> FALSE, bodies |-> <<>>]
             ELSE IF rest.ok
                  THEN [ok |-> TRUE, bodies |-> <<e.body>> \o rest.bodies]
                  ELSE rest

\* the steps of nt_decode_transaction that can return an error, lines
\* 526-573 ("guess": guess_method_by_input returned Err)
DecodeTransactionFailPoints ==
    {"none", "transaction", "contract_abi", "method", "guess",
     "decode_input", "input_tokens", "process_raw_outputs", "output_tokens",
     "serialize"}

\* lines 544-575: decode the input, select the output bodies, hand them to
\* process_raw_outputs
decode_matched(transaction, fail_at) ==
    IF fail_at \in {"decode_input", "input_tokens"}
    THEN Ran(<<"decode_input">>, FALSE, <<>>, DErr(fail_at))
    ELSE LET selected == ext_out_msgs(transaction.out_msgs)
         IN  IF ~selected.ok
             THEN Ran(<<"decode_input", "ext_out_msgs">>, FALSE, <<>>,
                      DErr(ExpectedMessageBody))
             ELSE Ran(<<"decode_input", "ext_out_msgs", "process_raw_outputs">>,
                      TRUE, selected.bodies,
                      IF fail_at \in {"process_raw_outputs", "output_tokens",
                                      "serialize"}
                      THEN DErr(fail_at)
                      ELSE OkData("decoded_transaction"))

guess_method_validating(transaction, match, fail_at) ==
    IF fail_at = "guess"
    THEN Ran(<<"guess_method_by_input">>, FALSE, <<>>, DErr(fail_at))
    ELSE IF ~ext_out_msgs(transaction.out_msgs).ok
    THEN Ran(<<"guess_method_by_input", "ext_out_msgs">>, FALSE, <<>>,
             DErr(ExpectedMessageBody))
    ELSE IF match = "None"
    THEN Ran(<<"guess_method_by_input", "ext_out_msgs">>, FALSE, <<>>, Absent)
    ELSE After("guess_method_by_input", decode_matched(transaction, fail_at))

\* lines 537-542: the matcher on the inbound body; no function is the
\* absent result
guess_method(transaction, match, fail_at) ==
    IF fail_at = "guess"
    THEN Ran(<<"guess_method_by_input">>, FALSE, <<>>, DErr(fail_at))
    ELSE IF match = "None"
    THEN Ran(<<"guess_method_by_input">>, FALSE, <<>>, Absent)
    ELSE After("guess_method_by_input", decode_matched(transaction, fail_at))

in_msg_body_unchecked(transaction, match, fail_at) ==
    After("in_msg_body", guess_method(transaction, match, fail_at))

\* lines 530-535: an inbound message without a body is the absent result
in_msg_body(transaction, match, fail_at) ==
    IF ~transaction.in_msg.body
    THEN Ran(<<"in_msg_body">>, FALSE, <<>>, Absent)
    ELSE After("in_msg_body", guess_method(transaction, match, fail_at))

\* nt_decode_transaction::internal_fn, lines 521-576
decode_transaction(transaction, match, fail_at) ==
    IF fail_at \in {"transaction", "contract_abi", "method"}
    THEN Returned(DErr(fail_at))
    ELSE in_msg_body(transaction, match, fail_at)

scan_event_aborting(body) ==
    IF body \in {"no_id", "unknown_id"} THEN "skip"
    ELSE IF body \in {"bad_payload", "bad_tokens"} THEN "err"
    ELSE body

\* lines 611-623, one body: the three .ok()? leave the closure with None,
\* a failed make_abi_tokens is Some(Err), a decoded event Some(Ok)
scan_event(body) ==
    IF body \in {"no_id", "unknown_id", "bad_payload"} THEN "skip"
    ELSE IF body = "bad_tokens" THEN "err"
    ELSE body

\* lines 608-625: filter_map over the bodies, then
\* collect::<Result<Vec<_>, String>>
RECURSIVE events(_)
events(bodies) ==
    IF bodies = <<>> THEN [ok |-> TRUE, list |-> <<>>]
    ELSE LET data == scan_event(Head(bodies))
             rest == events(Tail(bodies))
         IN  IF data = "skip" THEN rest
             ELSE IF data = "err" THEN [ok |-> FALSE, list |-> <<>>]
             ELSE IF rest.ok
                  THEN [ok |-> TRUE, list |-> <<data>> \o rest.list]
                  ELSE rest

\* the steps of nt_decode_transaction_events that can return an error
\* whatever the messages are, lines 590-629
DecodeTransactionEventsFailPoints ==
    {"none", "transaction", "contract_abi", "serialize"}

decode_transaction_events_lenient(transaction, fail_at) ==
    IF fail_at \in {"transaction", "contract_abi"} THEN DErr(fail_at)
    ELSE LET scanned == events(ext_out_msgs_skipping(transaction.out_msgs).bodies)
         IN  IF ~scanned.ok THEN DErr("make_abi_tokens")
             ELSE IF fail_at = "serialize" THEN DErr(fail_at)
             ELSE OkEvents(scanned.list)

\* nt_decode_transaction_events::internal_fn, lines 589-632
decode_transaction_events(transaction, fail_at) ==
    IF fail_at \in {"transaction", "contract_abi"} THEN DErr(fail_at)
    ELSE LET selected == ext_out_msgs(transaction.out_msgs)
         IN  IF ~selected.ok THEN DErr(ExpectedMessageBody)
             ELSE LET scanned == events(selected.bodies)
                  IN  IF ~scanned.ok THEN DErr("make_abi_tokens")
                      ELSE IF fail_at = "serialize" THEN DErr(fail_at)
                      ELSE OkEvents(scanned.list)

(***************************************************************************)
(* External-message construction, lines 192-352, and CLOCK, lib.rs 34-40.  *)
(*                                                                         *)
(* Times are milliseconds since the epoch.  system_time is what            *)
(* SystemTime::now() reads, clock_time what the shared CLOCK reads; they   *)
(* are two sources and the model lets each advance on its own.             *)
(* timeout and the expire timestamp are u32 in the code; the model keeps   *)
(* the wrap-around at TimestampBits bits.                                  *)
(***************************************************************************)
TimestampModulus == 2 ^ TimestampBits

Timeouts == 0..(TimestampModulus - 1)

\* the steps of nt_create_external_message_without_signature that can
\* return an error, in the order of lines 215-267 ("none": all succeed)
UnsignedFailPoints ==
    {"none", "dst", "contract_abi", "method", "state_init", "input_json",
     "input_tokens", "encode_input", "serialize"}

\* the steps of nt_create_external_message that can return an error, in
\* the order of lines 302-335
DeferredFailPoints ==
    {"none", "dst", "contract_abi", "method", "state_init", "input_json",
     "input_tokens", "public_key", "make_labs_unsigned_message"}

\* the failures that return before the reference time is read
BeforeTimeRead ==
    {"dst", "contract_abi", "method", "state_init", "input_json",
     "input_tokens", "public_key"}

\* ExpireAt::new_from_millis(Expiration::Timeout(timeout), time), line 233,
\* and the same computation behind make_labs_unsigned_message, line 327:
\* (time / 1000) as u32 + timeout in u32.  An overflowing sum panics in a
\* build with overflow checks and wraps in one without.
ExpireOutcomes(time, timeout) ==
    LET secs == (time \div 1000) % TimestampModulus
        sum == secs + timeout
    IN  IF sum < TimestampModulus
        THEN {[panic |-> FALSE, timestamp |-> sum]}
        ELSE {[panic |-> TRUE, timestamp |-> 0],
              [panic |-> FALSE, timestamp |-> sum % TimestampModulus]}

NoHeader == [time |-> 0, expire |-> 0, pubkey |-> "none"]
NoEnvelope == [expire_at |-> 0, state_init |-> FALSE, body |-> FALSE]
NoOutcome == [tag |-> "None", kind |-> "none", handle |-> 0, err |-> ""]

NoCall == [op |-> "none", fail_at |-> "none", has_state_init |-> FALSE,
           timeout |-> 0, time_source |-> "none", reference_time |-> 0,
           header |-> NoHeader, envelope |-> NoEnvelope, outcome |-> NoOutcome]

ErrOutcome(e) == [tag |-> "Err", kind |-> "none", handle |-> 0, err |-> e]
PanicOutcome == [tag |-> "Panic", kind |-> "none", handle |-> 0, err |-> ""]

\* line 242: the pubkey header of the unsigned path
UnsignedHeaderPubkey == "none"

DeferredReturn_message(id) ==
    [tag |-> "Ok", kind |-> "message", handle |-> id, err |-> ""]

\* lines 337-339: the deferred path returns the pointer to the boxed
\* unsigned message
DeferredReturn(id) ==
    [tag |-> "Ok", kind |-> "handle", handle |-> id, err |-> ""]

MessageInit ==
    /\ mpc = "idle"
    /\ system_time = 0
    /\ clock_time = 0
    /\ call = NoCall
    /\ unsigned_messages = {}
    /\ messages = {}

Init == ParserInit /\ MessageInit /\ DecoderInit

\* lines 207-271
nt_create_external_message_without_signature ==
    /\ mpc = "idle"
    /\ Cardinality(messages) < MaxMessages
    /\ \E fail_at \in UnsignedFailPoints, has_state_init \in BOOLEAN,
          timeout \in Timeouts :
        /\ fail_at = "state_init" => has_state_init
        /\ LET time == system_time       \* lines 228-231
               base == [NoCall EXCEPT
                          !.op = "nt_create_external_message_without_signature",
                          !.fail_at = fail_at,
                          !.has_state_init = has_state_init,
                          !.timeout = timeout]
           IN  IF fail_at \in BeforeTimeRead
               THEN /\ call' = [base EXCEPT !.outcome = ErrOutcome(fail_at)]
                    /\ UNCHANGED messages
               ELSE \E expire_at \in ExpireOutcomes(time, timeout) :
                    LET read == [base EXCEPT !.time_source = "SystemTime",
                                             !.reference_time = time]
                        built == [read EXCEPT
                                    !.header = [time |-> time,
                                                expire |-> expire_at.timestamp,
                                                pubkey |-> UnsignedHeaderPubkey],
                                    !.envelope = [expire_at |-> expire_at.timestamp,
                                                  state_init |-> has_state_init,
                                                  body |-> TRUE],
                                    !.outcome = [tag |-> "Ok", kind |-> "message",
                                                 handle |-> 0, err |-> ""]]
                    IN  IF expire_at.panic
                        THEN /\ call' = [read EXCEPT !.outcome = PanicOutcome]
                             /\ UNCHANGED messages
                        ELSE IF fail_at # "none"
                        THEN /\ call' = [read EXCEPT !.outcome = ErrOutcome(fail_at)]
                             /\ UNCHANGED messages
                        ELSE /\ call' = built
                             /\ messages' = messages \cup
                                    {[index |-> Cardinality(messages) + 1,
                                      path |-> "unsigned",
                                      pubkey |-> built.header.pubkey,
                                      signature |-> "none",
                                      handle |-> 0]}
    /\ mpc' = "done"
    /\ UNCHANGED <<system_time, clock_time, unsigned_messages>>
    /\ UNCHANGED parserVars
    /\ UNCHANGED decoderVars

\* lines 293-340
nt_create_external_message ==
    /\ mpc = "idle"
    /\ Cardinality(unsigned_messages) < MaxHandles
    /\ \E fail_at \in DeferredFailPoints, has_state_init \in BOOLEAN,
          timeout \in Timeouts :
        /\ fail_at = "state_init" => has_state_init
        /\ LET time == clock_time        \* CLOCK.as_ref(), line 328
               id == Cardinality(unsigned_messages) + 1
               base == [NoCall EXCEPT
                          !.op = "nt_create_external_message",
                          !.fail_at = fail_at,
                          !.has_state_init = has_state_init,
                          !.timeout = timeout]
           IN  IF fail_at \in BeforeTimeRead
               THEN /\ call' = [base EXCEPT !.outcome = ErrOutcome(fail_at)]
                    /\ UNCHANGED unsigned_messages
               ELSE \E expire_at \in ExpireOutcomes(time, timeout) :
                    LET read == [base EXCEPT !.time_source = "CLOCK",
                                             !.reference_time = time]
                    IN  IF expire_at.panic
                        THEN /\ call' = [read EXCEPT !.outcome = PanicOutcome]
                             /\ UNCHANGED unsigned_messages
                        ELSE IF fail_at # "none"
                        THEN /\ call' = [read EXCEPT !.outcome = ErrOutcome(fail_at)]
                             /\ UNCHANGED unsigned_messages
                        ELSE /\ call' = [read EXCEPT
                                    !.header = [time |-> time,
                                                expire |-> expire_at.timestamp,
                                                pubkey |-> "some"],
                                    !.envelope = [expire_at |-> expire_at.timestamp,
                                                  state_init |-> has_state_init,
                                                  body |-> FALSE],
                                    !.outcome = DeferredReturn(id)]
                             /\ unsigned_messages' = unsigned_messages \cup
                                    {[id |-> id,
                                      state_init |-> has_state_init]}
    /\ mpc' = "done"
    /\ UNCHANGED <<system_time, clock_time, messages>>
    /\ UNCHANGED parserVars
    /\ UNCHANGED decoderVars

\* the completion of an unsigned message: an external signer supplies a
\* signature over it and the final message results
SignUnsignedMessage ==
    /\ mpc = "idle"
    /\ Cardinality(messages) < MaxMessages
    /\ \E u \in unsigned_messages :
        /\ call' = [NoCall EXCEPT
                      !.op = "sign",
                      !.outcome = [tag |-> "Ok", kind |-> "message",
                                   handle |-> u.id, err |-> ""]]
        /\ messages' = messages \cup
               {[index |-> Cardinality(messages) + 1, path |-> "deferred",
                 pubkey |-> "some", signature |-> "supplied", handle |-> u.id]}
    /\ mpc' = "done"
    /\ UNCHANGED <<system_time, clock_time, unsigned_messages>>
    /\ UNCHANGED parserVars
    /\ UNCHANGED decoderVars

\* the caller has taken the result
MessageReturn ==
    /\ mpc = "done"
    /\ mpc' = "idle"
    /\ call' = NoCall
    /\ UNCHANGED <<system_time, clock_time, unsigned_messages, messages>>
    /\ UNCHANGED parserVars
    /\ UNCHANGED decoderVars

\* SystemTime::now() moves on
SystemTimeAdvance ==
    /\ mpc = "idle"
    /\ system_time + 500 <= MaxSeconds * 1000
    /\ system_time' = system_time + 500
    /\ UNCHANGED <<mpc, clock_time, call, unsigned_messages, messages>>
    /\ UNCHANGED parserVars
    /\ UNCHANGED decoderVars

\* the shared clock moves on
ClockAdvance ==
    /\ mpc = "idle"
    /\ clock_time + 500 <= MaxSeconds * 1000
    /\ clock_time' = clock_time + 500
    /\ UNCHANGED <<mpc, system_time, call, unsigned_messages, messages>>
    /\ UNCHANGED parserVars
    /\ UNCHANGED decoderVars

(***************************************************************************)
(* The callers of the lookups and decoders.                                *)
(***************************************************************************)
nt_run_local ==
    /\ dpc = "idle"
    /\ \E fail_at \in RunLocalFailPoints, functions \in SUBSET Names,
          method \in Names :
           dcall' = DecoderCall("nt_run_local", fail_at, functions, method,
                                "Known", "none", NoTransaction,
                                Returned(run_local(fail_at, functions, method)))
    /\ dpc' = "done"
    /\ UNCHANGED parserVars
    /\ UNCHANGED messageVars

nt_encode_internal_input ==
    /\ dpc = "idle"
    /\ \E fail_at \in EncodeInternalInputFailPoints,
          functions \in SUBSET Names, method \in Names :
           dcall' = DecoderCall("nt_encode_internal_input", fail_at, functions,
                                method, "Known", "none", NoTransaction,
                                Returned(encode_internal_input(fail_at, functions,
                                                               method)))
    /\ dpc' = "done"
    /\ UNCHANGED parserVars
    /\ UNCHANGED messageVars

\* the call op, one of nt_decode_input, nt_decode_event, nt_decode_output
DecodedMessage(op) ==
    \E fail_at \in DecodeMessageFailPoints, functions \in SUBSET Names,
       method \in Names, method_kind \in MethodKinds :
        \E match \in Matches(functions, method, method_kind) :
            dcall' = DecoderCall(op, fail_at, functions, method, method_kind,
                                 match, NoTransaction,
                                 Returned(decode_message(fail_at, match)))

nt_decode_input ==
    /\ dpc = "idle"
    /\ DecodedMessage("nt_decode_input")
    /\ dpc' = "done"
    /\ UNCHANGED parserVars
    /\ UNCHANGED messageVars

nt_decode_event ==
    /\ dpc = "idle"
    /\ DecodedMessage("nt_decode_event")
    /\ dpc' = "done"
    /\ UNCHANGED parserVars
    /\ UNCHANGED messageVars

nt_decode_output ==
    /\ dpc = "idle"
    /\ DecodedMessage("nt_decode_output")
    /\ dpc' = "done"
    /\ UNCHANGED parserVars
    /\ UNCHANGED messageVars

nt_decode_transaction ==
    /\ dpc = "idle"
    /\ \E fail_at \in DecodeTransactionFailPoints, match \in {"Some", "None"},
          in_msg \in InMsgs, n \in 0..MaxOutMsgs :
           \E out_msgs \in [1..n -> OutMsgs] :
               LET transaction == [in_msg |-> in_msg, out_msgs |-> out_msgs]
               IN  dcall' = DecoderCall("nt_decode_transaction", fail_at, {},
                                        "", "none", match, transaction,
                                        decode_transaction(transaction, match,
                                                           fail_at))
    /\ dpc' = "done"
    /\ UNCHANGED parserVars
    /\ UNCHANGED messageVars

nt_decode_transaction_events ==
    /\ dpc = "idle"
    /\ \E fail_at \in DecodeTransactionEventsFailPoints, in_msg \in InMsgs,
          n \in 0..MaxOutMsgs :
           \E out_msgs \in [1..n -> OutMsgs] :
               LET transaction == [in_msg |-> in_msg, out_msgs |-> out_msgs]
               IN  dcall' = DecoderCall("nt_decode_transaction_events", fail_at,
                                        {}, "", "none", "none", transaction,
                                        Returned(decode_transaction_events(
                                                     transaction, fail_at)))
    /\ dpc' = "done"
    /\ UNCHANGED parserVars
    /\ UNCHANGED messageVars

\* the caller has taken the result
DecoderReturn ==
    /\ dpc = "done"
    /\ dpc' = "idle"
    /\ dcall' = NoDecoderCall
    /\ UNCHANGED parserVars
    /\ UNCHANGED messageVars

NextParser == ParseParamType \/ ParseParamsList \/ ParserReturn

NextMessage ==
    \/ nt_create_external_message_without_signature
    \/ nt_create_external_message
    \/ SignUnsignedMessage
    \/ MessageReturn
    \/ SystemTimeAdvance
    \/ ClockAdvance

\* the parser's callers alone
SpecParser == Init /\ [][NextParser]_vars

\* the message builder's callers alone
SpecMessage == Init /\ [][NextMessage]_vars

NextDecoder ==
    \/ nt_run_local
    \/ nt_encode_internal_input
    \/ nt_decode_input
    \/ nt_decode_event
    \/ nt_decode_output
    \/ nt_decode_transaction
    \/ nt_decode_transaction_events
    \/ DecoderReturn

\* the callers of the lookups and decoders alone
SpecDecoder == Init /\ [][NextDecoder]_vars

(***************************************************************************)
(* Properties of the message builder (checked under SpecMessage).          *)
(***************************************************************************)
BuilderOps == {"nt_create_external_message_without_signature",
               "nt_create_external_message"}

\* C8: on both construction paths the reference time behind the time
\* header and the expiration is read from the shared CLOCK.
C8_ReferenceTimeFromSharedClock ==
    (mpc = "done" /\ call.op \in BuilderOps /\ call.outcome.tag = "Ok")
        => /\ call.time_source = "CLOCK"
           /\ call.reference_time = clock_time

\* C9: the unsigned message has expire = reference time in seconds +
\* timeout without wrap-around, time = the same reference time in
\* milliseconds, and the envelope's expire_at = the header's expire.
C9_ExpireIsReferencePlusTimeout ==
    (mpc = "done"
       /\ call.op = "nt_create_external_message_without_signature"
       /\ call.outcome.tag = "Ok")
        => /\ call.header.expire = (call.reference_time \div 1000) + call.timeout
           /\ call.header.time = call.reference_time
           /\ call.envelope.expire_at = call.header.expire

\* C10: the deferred path yields only a handle to an unsigned message and
\* no sendable message; a message of that path appears only when a signer
\* supplies a signature to an existing unsigned message; the unsigned path
\* is the one that yields a message directly, its pubkey header absent.
C10_DeferredNeverSendable ==
    [][ /\ (mpc = "idle" /\ call'.op = "nt_create_external_message")
             => /\ messages' = messages
                /\ call'.outcome.kind # "message"
                /\ call'.outcome.tag = "Ok"
                     => /\ call'.outcome.kind = "handle"
                        /\ \E u \in unsigned_messages' \ unsigned_messages :
                              u.id = call'.outcome.handle
        /\ \A m \in messages' \ messages :
              \/ /\ m.path = "unsigned"
                 /\ call'.op = "nt_create_external_message_without_signature"
                 /\ m.pubkey = "none"
                 /\ m.signature = "none"
              \/ /\ m.path = "deferred"
                 /\ call'.op = "sign"
                 /\ m.signature = "supplied"
                 /\ \E u \in unsigned_messages : u.id = m.handle
      ]_vars

C10_Witness ==
    /\ \E m \in messages : m.path = "deferred" /\ m.signature = "supplied"
    /\ \E m \in messages : m.path = "unsigned" /\ m.pubkey = "none"
    /\ unsigned_messages # {}

(***************************************************************************)
(* Properties of the lookups and decoders (checked under SpecDecoder).     *)
(***************************************************************************)

\* the operations that look a known name up themselves (lines 74, 172)
LookupOps == {"nt_run_local", "nt_encode_internal_input"}

\* C11: a known method name that the contract does not declare is
\* surfaced as the absent result (ok with null data) and never as an error:
\* when every other step of the call succeeds, the result is the absent
\* result.
C11_KnownMissIsAbsent ==
    (dpc = "done"
       /\ dcall.op \in LookupOps
       /\ dcall.fail_at = "none"
       /\ dcall.method \notin dcall.functions)
        => dcall.outcome = Absent

DecodeTransactionCalled == dpc = "done" /\ dcall.op = "nt_decode_transaction"

\* the transaction, the contract and the method name were read (526-528)
ArgumentsRead == dcall.fail_at \notin {"transaction", "contract_abi", "method"}

Stepped(step) == \E i \in 1..Len(dcall.trace) : dcall.trace[i] = step

\* some outbound message has neither destination nor body
HasBarren(out_msgs) ==
    \E i \in 1..Len(out_msgs) : ~out_msgs[i].dst /\ out_msgs[i].body = NoBody

\* the bodies of the outbound messages without destination, in order
ExtOutBodies(out_msgs) ==
    LET selected == SelectSeq(out_msgs, LAMBDA e : ~e.dst)
    IN  [i \in 1..Len(selected) |-> selected[i].body]

\* C12: nt_decode_transaction on a transaction (read with a valid contract
\* and method name) whose inbound message has no body returns the absent
\* result, whatever the outbound messages are, and runs neither the matcher
\* nor the decoder.
C12_NoInboundBodyIsAbsent ==
    (DecodeTransactionCalled /\ ArgumentsRead /\ ~dcall.transaction.in_msg.body)
        => /\ dcall.outcome = Absent
           /\ ~Stepped("guess_method_by_input")
           /\ ~Stepped("decode_input")
           /\ ~Stepped("ext_out_msgs")

\* no inbound body, an outbound message without destination and body, and
\* a matcher that would have failed
C12_Witness ==
    /\ DecodeTransactionCalled
    /\ dcall.fail_at = "guess"
    /\ ~dcall.transaction.in_msg.body
    /\ HasBarren(dcall.transaction.out_msgs)
    /\ dcall.outcome = Absent

\* the inbound body is there, the matcher answered a function and its
\* input decoded (lines 532-545)
InputDecoded ==
    /\ ArgumentsRead
    /\ dcall.transaction.in_msg.body
    /\ dcall.match = "Some"
    /\ dcall.fail_at \notin {"guess", "decode_input", "input_tokens"}

\* C13: once the inbound body is present, a function is matched and its
\* input decodes, nt_decode_transaction returns the error "Expected message
\* body" whenever some outbound message has no destination and no body;
\* nothing is handed to the output step and no transaction is decoded.
C13_BarrenOutputIsError ==
    (DecodeTransactionCalled /\ InputDecoded
       /\ HasBarren(dcall.transaction.out_msgs))
        => /\ dcall.outcome = DErr(ExpectedMessageBody)
           /\ ~dcall.handed_over

\* a message with a body and no destination ahead of the barren one
C13_Witness ==
    /\ DecodeTransactionCalled /\ InputDecoded
    /\ dcall.fail_at = "none"
    /\ Len(dcall.transaction.out_msgs) = 2
    /\ dcall.transaction.out_msgs[1] = [dst |-> FALSE, body |-> "event_a"]
    /\ dcall.transaction.out_msgs[2] = [dst |-> FALSE, body |-> NoBody]
    /\ dcall.outcome = DErr(ExpectedMessageBody)

DecodeTransactionEventsCalled ==
    dpc = "done" /\ dcall.op = "nt_decode_transaction_events"

EventBodies == {"event_a", "event_b"}

\* C14: in nt_decode_transaction_events a body whose id cannot be read,
\* whose id matches no event, or whose decode fails contributes nothing and
\* does not abort the scan: with every selected message carrying a body and
\* every decoded event convertible, the result is the list of the events of
\* the remaining bodies, at most one per body, in transaction order.
C14_EventScanBestEffort ==
    LET bodies == ExtOutBodies(dcall.transaction.out_msgs)
    IN  (DecodeTransactionEventsCalled
           /\ dcall.fail_at = "none"
           /\ ~HasBarren(dcall.transaction.out_msgs)
           /\ \A i \in 1..Len(bodies) : bodies[i] # "bad_tokens")
            => dcall.outcome =
                   OkEvents(SelectSeq(bodies, LAMBDA b : b \in EventBodies))

\* an undecodable body beside an event that decodes
C14_Witness ==
    /\ DecodeTransactionEventsCalled
    /\ dcall.fail_at = "none"
    /\ \E i \in 1..Len(dcall.transaction.out_msgs) :
          /\ ~dcall.transaction.out_msgs[i].dst
          /\ dcall.transaction.out_msgs[i].body = "bad_payload"
    /\ dcall.outcome = OkEvents(<<"event_b">>)

\* the steps of nt_decode_transaction in the order of lines 530-562
DecodeTransactionSteps ==
    <<"in_msg_body", "guess_method_by_input", "decode_input", "ext_out_msgs",
      "process_raw_outputs">>

\* C15: nt_decode_transaction runs its steps in the order inbound-body
\* check, function match, input decode, outbound selection; when the
\* matcher reports no function the result is the absent result and the
\* outbound messages are never validated.
C15_MatchBeforeOutboundValidation ==
    DecodeTransactionCalled
        => /\ Len(dcall.trace) <= Len(DecodeTransactionSteps)
           /\ dcall.trace = SubSeq(DecodeTransactionSteps, 1, Len(dcall.trace))
           /\ (ArgumentsRead /\ dcall.transaction.in_msg.body
                 /\ dcall.fail_at # "guess" /\ dcall.match = "None")
                => /\ dcall.outcome = Absent
                   /\ ~Stepped("ext_out_msgs")

\* no function matched on a transaction with a barren outbound message
C15_Witness ==
    /\ DecodeTransactionCalled /\ ArgumentsRead
    /\ dcall.transaction.in_msg.body
    /\ dcall.fail_at = "none" /\ dcall.match = "None"
    /\ HasBarren(dcall.transaction.out_msgs)
    /\ dcall.outcome = Absent

\* C16: what nt_decode_transaction hands to process_raw_outputs is exactly
\* the bodies of the outbound messages without destination, in transaction
\* order; a message with a destination contributes no body and causes no
\* error, even when it has no body.
C16_OutputsAreDestinationless ==
    DecodeTransactionCalled
        => /\ dcall.handed_over
                => dcall.handed = ExtOutBodies(dcall.transaction.out_msgs)
           /\ (InputDecoded /\ ~HasBarren(dcall.transaction.out_msgs))
                => dcall.handed_over
           /\ dcall.outcome = DErr(ExpectedMessageBody)
                => HasBarren(dcall.transaction.out_msgs)

\* a body-less message with a destination ahead of a return-value carrier
C16_Witness ==
    /\ DecodeTransactionCalled
    /\ dcall.handed_over
    /\ Len(dcall.transaction.out_msgs) = 2
    /\ dcall.transaction.out_msgs[1] = [dst |-> TRUE, body |-> NoBody]
    /\ dcall.transaction.out_msgs[2] = [dst |-> FALSE, body |-> "event_a"]
    /\ dcall.handed = <<"event_a">>
    /\ dcall.outcome = OkData("decoded_transaction")

\* C17: in nt_decode_transaction_events an outbound message without
\* destination and without body is not skipped: the call returns the error
\* "Expected message body" and no event list, whatever the other messages
\* carry; a message with a destination never causes that error.
C17_EventScanBarrenIsError ==
    (DecodeTransactionEventsCalled
       /\ dcall.fail_at \notin {"transaction", "contract_abi"})
        => (dcall.outcome = DErr(ExpectedMessageBody)
              <=> HasBarren(dcall.transaction.out_msgs))

\* an event that matches and decodes ahead of the barren message
C17_Witness ==
    /\ DecodeTransactionEventsCalled
    /\ dcall.fail_at = "none"
    /\ Len(dcall.transaction.out_msgs) = 2
    /\ dcall.transaction.out_msgs[1] = [dst |-> FALSE, body |-> "event_a"]
    /\ dcall.transaction.out_msgs[2] = [dst |-> FALSE, body |-> NoBody]
    /\ dcall.outcome = DErr(ExpectedMessageBody)

====
